---- MODULE Spec2Model ----
(***************************************************************************)
(* Console assistant for Google Calendar (proyecto.py).                    *)
(*                                                                         *)
(* Strings are sequences of one-character strings, so that substring       *)
(* tests, the regular expressions and strip()/lower() are computed the way *)
(* the program computes them.  Optional[T] is a sequence of length <= 1.   *)
(* Aware datetimes are minutes of wall-clock time in TZ, counted from      *)
(* 2024-06-10T00:00 local; the system clock is in UTC minutes counted from *)
(* 2024-06-10T00:00Z.                                                      *)
(***************************************************************************)
EXTENDS Integers, Sequences, FiniteSets, TLC

VARIABLES pc, texto, intent, path, ev, draft, prompted, out, queries,
          created, clock, now, failure

vars == <<pc, texto, intent, path, ev, draft, prompted, out, queries,
          created, clock, now, failure>>

-----------------------------------------------------------------------------
(* Configuration                                                           *)

\* TZ = America/Guatemala: UTC-06:00, no daylight saving.
UTC_OFFSET_MIN == -360
DEFAULT_DURATION_MIN == 60
MinutesPerDay == 1440
TitleFallbackLen == 30

-----------------------------------------------------------------------------
(* Optional values and Python truthiness                                   *)

None == <<>>
Some(v) == <<v>>

\* "not s" for Optional[str]: None and the empty string are falsy.
TruthyStr(o) == o # None /\ o[1] # <<>>
\* "not n" for Optional[int]: None and 0 are falsy.
TruthyInt(o) == o # None /\ o[1] # 0
\* "not d" for Optional[datetime]: only None is falsy.
TruthyDt(o) == o # None

Min(S) == CHOOSE x \in S : \A y \in S : x <= y
Max(S) == CHOOSE x \in S : \A y \in S : x >= y

-----------------------------------------------------------------------------
(* Characters and str methods                                              *)

UpperChars == <<"A","B","C","D","E","F","G","H","I","J","K","L","M","N","O","P","Q","R","S","T","U","V","W","X","Y","Z","Ñ","É">>
LowerChars == <<"a","b","c","d","e","f","g","h","i","j","k","l","m","n","o","p","q","r","s","t","u","v","w","x","y","z","ñ","é">>

Lower1(c) ==
    IF \E i \in 1..Len(UpperChars) : UpperChars[i] = c
    THEN LowerChars[CHOOSE i \in 1..Len(UpperChars) : UpperChars[i] = c]
    ELSE c

Digits == <<"0","1","2","3","4","5","6","7","8","9">>
IsDigit(c) == \E i \in 1..10 : Digits[i] = c
DigitVal(c) == (CHOOSE i \in 1..10 : Digits[i] = c) - 1

\* \s
IsSpace(c) == c \in {" ", "\t", "\n"}
\* characters of the inputs that are not \w
NonWordChars == {"", " ", "\t", "\n", ".", ",", ":", "/", "?", "-", "+"}
IsWord(c) == c \notin NonWordChars

At(t, i) == IF i \in 1..Len(t) THEN t[i] ELSE ""

lower(t) == [i \in 1..Len(t) |-> Lower1(t[i])]

strip(t) ==
    LET keep == {i \in 1..Len(t) : ~IsSpace(t[i])}
    IN  IF keep = {} THEN <<>> ELSE SubSeq(t, Min(keep), Max(keep))

\* w in t
Contains(t, w) ==
    \E i \in 1..(Len(t) - Len(w) + 1) : SubSeq(t, i, i + Len(w) - 1) = w

\* t.startswith(w)
StartsWith(t, w) == Len(w) <= Len(t) /\ SubSeq(t, 1, Len(w)) = w

\* w (lower case) matches at position i of t under re.IGNORECASE
MatchCI(t, i, w) ==
    /\ i >= 1
    /\ i + Len(w) - 1 <= Len(t)
    /\ \A k \in 1..Len(w) : Lower1(t[i + k - 1]) = w[k]

\* \b between character i-1 and character i
WordBoundary(t, i) == IsWord(At(t, i - 1)) # IsWord(At(t, i))

\* first index >= p that is not whitespace (Len(t)+1 when there is none)
SpaceEnd(t, p) ==
    Min({q \in p..(Len(t) + 1) : q = Len(t) + 1 \/ ~IsSpace(t[q])})

\* first index >= p that is not a digit
DigitEnd(t, p) ==
    Min({q \in p..(Len(t) + 1) : q = Len(t) + 1 \/ ~IsDigit(t[q])})

RECURSIVE DigitsToInt(_)
DigitsToInt(s) ==
    IF s = <<>> THEN 0
    ELSE 10 * DigitsToInt(SubSeq(s, 1, Len(s) - 1)) + DigitVal(s[Len(s)])

\* int(resp): an optional sign and decimal digits, else ValueError (None)
ParseInt(s) ==
    LET body == IF At(s, 1) \in {"-", "+"} THEN SubSeq(s, 2, Len(s)) ELSE s
    IN  IF body # <<>> /\ \A i \in 1..Len(body) : IsDigit(body[i])
        THEN Some(IF At(s, 1) = "-" THEN 0 - DigitsToInt(body)
                  ELSE DigitsToInt(body))
        ELSE None

-----------------------------------------------------------------------------
(* Vocabularies                                                            *)

INTENT_SCHEDULE_WORDS ==
    { <<"a","g","e","n","d","a">>,
      <<"a","g","e","n","d","a","r">>,
      <<"p","r","o","g","r","a","m","a">>,
      <<"p","r","o","g","r","a","m","a","r">>,
      <<"c","r","e","a">>,
      <<"c","r","e","a","r">>,
      <<"p","o","n">>,
      <<"p","o","n","e","r">>,
      <<"h","a","z">>,
      <<"h","a","c","e","r">>,
      <<"c","a","l","e","n","d","a","r","i","z","a">>,
      <<"c","a","l","e","n","d","a","r","i","z","a","r">> }

INTENT_LIST_WORDS ==
    { <<"q","u","é"," ","t","a","r","e","a","s"," ","t","e","n","g","o">>,
      <<"q","u","e"," ","t","a","r","e","a","s"," ","t","e","n","g","o">>,
      <<"q","u","é"," ","d","e","b","o"," ","h","a","c","e","r">>,
      <<"q","u","e"," ","d","e","b","o"," ","h","a","c","e","r">>,
      <<"m","i"," ","a","g","e","n","d","a">>,
      <<"v","e","r"," ","a","g","e","n","d","a">>,
      <<"q","u","é"," ","h","a","y">>,
      <<"q","u","e"," ","h","a","y">>,
      <<"l","i","s","t","a","r">>,
      <<"l","i","s","t","a">> }

W_hoy == <<"h","o","y">>
W_manana == <<"m","a","ñ","a","n","a">>
W_semana == <<"s","e","m","a","n","a">>
W_esta_semana == <<"e","s","t","a"," ","s","e","m","a","n","a">>
W_agenda == <<"a","g","e","n","d","a">>
ExitWords == { <<"s","a","l","i","r">>, <<"e","x","i","t">>, <<"q","u","i","t">> }

-----------------------------------------------------------------------------
(* Temporal resolution (dateparser.parse, an external library)             *)

\* Instants the resolver can answer with: 2024-06-11T15:00 and
\* 2024-06-12T09:30, wall-clock minutes in TZ.
DateTimes == {2340, 3450}

\* Fragments that carry temporal information in the inputs of the model.
TemporalFragments ==
    { W_hoy, W_manana, <<"v","i","e","r","n","e","s">>, <<"1","4",":","3","0">>, <<"1","2","/","0","9">>, <<"3","p","m">> }

\* parse_datetime_es(text): what one call may return.  The library resolves
\* against the current instant and is outside the program, so each call is
\* an input: None, or an aware datetime in TZ when the text carries a
\* temporal expression.
parse_datetime_es(text) ==
    {None} \cup
    (IF \E f \in TemporalFragments : Contains(lower(text), f)
     THEN {Some(d) : d \in DateTimes} ELSE {})

-----------------------------------------------------------------------------
(* detect_intent                                                           *)

ListIntents == {"list_today", "list_tomorrow", "list_week", "list_date"}

HasListWord(t) == \E w \in INTENT_LIST_WORDS : Contains(t, w)
HasScheduleWord(t) == \E w \in INTENT_SCHEDULE_WORDS : Contains(t, w)

\* \d{1,2}[:.]\d{2}
IsClock(s) ==
    \E k \in 1..2 :
        /\ Len(s) = k + 3
        /\ \A i \in 1..k : IsDigit(s[i])
        /\ s[k + 1] \in {":", "."}
        /\ IsDigit(s[k + 2]) /\ IsDigit(s[k + 3])

\* \d{1,2}/\d{1,2}
IsDayMonth(s) ==
    \E k \in 1..2 : \E m \in 1..2 :
        /\ Len(s) = k + 1 + m
        /\ \A i \in 1..k : IsDigit(s[i])
        /\ s[k + 1] = "/"
        /\ \A i \in 1..m : IsDigit(s[k + 1 + i])

\* re.search(r"\b(\d{1,2}[:.]\d{2}|am|pm|\d{1,2}/\d{1,2})\b", t)
TimePattern(t) ==
    \E i \in 1..Len(t) : \E j \in (i + 1)..(Len(t) + 1) :
        /\ j - i <= 5
        /\ WordBoundary(t, i)
        /\ WordBoundary(t, j)
        /\ LET s == SubSeq(t, i, j - 1)
           IN  s \in {<<"a","m">>, <<"p","m">>} \/ IsClock(s) \/ IsDayMonth(s)

\* lines 201-209: the sub-kind of a list request; dt is what
\* parse_datetime_es(t) returns when it is called
ListKind(t, dt) ==
    IF Contains(t, W_hoy) THEN "list_today"
    ELSE IF Contains(t, W_manana) THEN "list_tomorrow"
    ELSE IF Contains(t, W_semana) \/ Contains(t, W_esta_semana)
         THEN "list_week"
    ELSE IF TruthyDt(dt) THEN "list_date"
    ELSE "list_today"

\* line 200
IsListRequest(t) ==
    \/ HasListWord(t)
    \/ (StartsWith(t, W_agenda)
        /\ (Contains(t, W_hoy) \/ Contains(t, W_manana)))

\* detect_intent with the structural pattern tested before the vocabularies
detect_intent_pattern_first(text, dt) ==
    LET t == strip(lower(text))
    IN  IF TimePattern(t) THEN "create"
        ELSE IF IsListRequest(t) THEN ListKind(t, dt)
        ELSE IF HasScheduleWord(t) THEN "create"
        ELSE "unknown"

detect_intent(text, dt) ==
    LET t == strip(lower(text))
    IN  IF IsListRequest(t) THEN ListKind(t, dt)
        ELSE IF HasScheduleWord(t) THEN "create"
        ELSE IF TimePattern(t) THEN "create"
        ELSE "unknown"

-----------------------------------------------------------------------------
(* parse_event_from_text                                                   *)

PendingEvent ==
    [title |-> None, start |-> None, end |-> None, location |-> None,
     description |-> None, duration_min |-> None]

\* [^.,\n]
InClause(c) == c \notin {".", ",", "\n"}

\* first index >= p outside [^.,\n]
ClauseEnd(t, p) ==
    Min({q \in p..(Len(t) + 1) : q = Len(t) + 1 \/ ~InClause(t[q])})

\* re.search(r"\ben\s+([^.,\n]+)", text, re.IGNORECASE) matching at i:
\* the positions where group 1 can start.  \s+ is greedy, so the group
\* starts at the last of them; it gives whitespace back to the group only
\* when the run is followed by a clause end or the end of the text.
LocStarts(t, i) ==
    {q \in (i + 3)..SpaceEnd(t, i + 2) : q <= Len(t) /\ InClause(t[q])}

LocAt(t, i) ==
    /\ WordBoundary(t, i)
    /\ MatchCI(t, i, <<"e","n">>)
    /\ IsSpace(At(t, i + 2))
    /\ LocStarts(t, i) # {}

\* group 1 written as (\S+): the place ends at the next blank
LocGroup_one_word(t, i) ==
    LET q == Max(LocStarts(t, i))
        e == Min({r \in q..(Len(t) + 1) :
                    r = Len(t) + 1 \/ IsSpace(t[r]) \/ ~InClause(t[r])})
    IN  SubSeq(t, q, Max({e - 1, q}))

LocGroup(t, i) ==
    LET q == Max(LocStarts(t, i))
    IN  SubSeq(t, q, ClauseEnd(t, q) - 1)

\* ev.location after the "Lugar" step
Lugar(t) ==
    LET hits == {i \in 1..Len(t) : LocAt(t, i)}
    IN  IF hits = {} THEN None ELSE Some(strip(LocGroup(t, Min(hits))))

\* re.search(r"(\d{1,n})\s*unit", text, re.IGNORECASE) matches at i
NumUnitAt(t, i, n, unit) ==
    /\ IsDigit(t[i])
    /\ DigitEnd(t, i) - i <= n
    /\ MatchCI(t, SpaceEnd(t, DigitEnd(t, i)), unit)

NumUnit(t, n, unit) ==
    LET hits == {i \in 1..Len(t) : NumUnitAt(t, i, n, unit)}
    IN  IF hits = {} THEN None
        ELSE Some(DigitsToInt(SubSeq(t, Min(hits), DigitEnd(t, Min(hits)) - 1)))

\* ev.duration_min after the "Duracion" step
Duracion(t) ==
    LET m_min == NumUnit(t, 3, <<"m","i","n">>)
        m_hr  == NumUnit(t, 2, <<"h","o","r","a">>)
    IN  IF m_min # None THEN Some(m_min[1])
        ELSE IF m_hr # None THEN Some(m_hr[1] * 60)
        ELSE None

TitleWords == { <<"c","o","n">>, <<"p","a","r","a">>, <<"s","o","b","r","e">> }

\* where "$" matches: the end of the text, or just before a final newline
LineEnd(t) == IF At(t, Len(t)) = "\n" THEN Len(t) - 1 ELSE Len(t)

\* re.search(r"\b(con|para|sobre)\s+(.+)$", text, re.IGNORECASE) matching
\* at i with connector kw: the positions where group 2 can start
TitleStarts(t, i, kw) ==
    {q \in (i + Len(kw) + 1)..SpaceEnd(t, i + Len(kw)) :
        q <= LineEnd(t) /\ \A r \in q..LineEnd(t) : t[r] # "\n"}

TitleAt(t, i, kw) ==
    /\ WordBoundary(t, i)
    /\ MatchCI(t, i, kw)
    /\ IsSpace(At(t, i + Len(kw)))
    /\ TitleStarts(t, i, kw) # {}

TitleGroup(t, i, kw) == SubSeq(t, Max(TitleStarts(t, i, kw)), LineEnd(t))

\* ev.title after the "Titulo heuristico" step
Titulo_no_fallback(t) ==
    LET hits == {i \in 1..Len(t) : \E kw \in TitleWords : TitleAt(t, i, kw)}
        i0   == Min(hits)
        kw0  == CHOOSE kw \in TitleWords : TitleAt(t, i0, kw)
    IN  IF hits = {} THEN None ELSE Some(strip(TitleGroup(t, i0, kw0)))

Titulo(t) ==
    LET hits == {i \in 1..Len(t) : \E kw \in TitleWords : TitleAt(t, i, kw)}
        i0   == Min(hits)
        kw0  == CHOOSE kw \in TitleWords : TitleAt(t, i0, kw)
        m_title == IF hits = {} THEN None
                   ELSE Some(strip(TitleGroup(t, i0, kw0)))
    IN  IF TruthyStr(m_title) THEN m_title
        ELSE Some(SubSeq(strip(t), 1, Min({TitleFallbackLen, Len(strip(t))})))

\* parse_event_from_text(text); dt is what parse_datetime_es(text) returns
parse_event_from_text(text, dt) ==
    [PendingEvent EXCEPT
        !.location = Lugar(text),
        !.duration_min = Duracion(text),
        !.start = dt,
        !.title = Titulo(text)]

-----------------------------------------------------------------------------
(* Inputs                                                                  *)

\* the example of the banner of main (line 299)
Scenario ==
    <<"a","g","e","n","d","a"," ","u","n","a"," ","c","i","t","a"," ","m","a","ñ","a","n","a"," ","a"," ","l","a","s"," ","3","p","m"," ","c","o","n"," ","e","l"," ","d","e","n","t","i","s","t","a"," ","e","n"," ","z","o","n","a"," ","1","0"," ","p","o","r"," ","4","5"," ","m","i","n","u","t","o","s">>

Sentences ==
    { <<"q","u","é"," ","d","e","b","o"," ","h","a","c","e","r"," ","h","o","y"," ","a"," ","l","a","s"," ","3","p","m">>,
      <<"v","e","r"," ","m","i"," ","a","g","e","n","d","a"," ","d","e"," ","e","s","t","a"," ","s","e","m","a","n","a">>,
      <<"q","u","é"," ","t","a","r","e","a","s"," ","t","e","n","g","o"," ","p","a","r","a"," ","m","a","ñ","a","n","a","?">>,
      <<"P","r","o","g","r","a","m","a"," ","j","u","n","t","a"," ","s","o","b","r","e"," ","v","e","n","t","a","s",","," ","e","n"," "," ","o","f","i","c","i","n","a","."," ","2"," ","h","o","r","a","s"," ","o"," ","9","0"," ","m","i","n">>,
      <<"c","i","t","a"," ","3"," ","p","m">>,
      <<" ","L","i","s","t","a"," ","1","2","/","0","9"," ">> }

Fragments ==
    { <<"l","i","s","t","a">>,
      <<"Q","u","é"," ","d","e","b","o"," ","h","a","c","e","r">>,
      <<"a","g","e","n","d","a">>,
      <<"h","o","y">>,
      <<"m","a","ñ","a","n","a">>,
      <<"s","e","m","a","n","a">>,
      <<"1","4",":","3","0">>,
      <<"1","2","/","0","9">>,
      <<"c","o","n"," ","A","n","a">>,
      <<"e","n"," ","s","a","l","a"," ","2",","," ","4","5"," ","m","i","n">>,
      <<"v","i","e","r","n","e","s">>,
      <<"h","o","l","a">>,
      <<"2"," ","h","o","r","a","s">> }

\* most fragments an utterance of the model is made of
MaxFrags == 2

RECURSIVE Join(_)
Join(fs) ==
    IF Len(fs) = 1 THEN fs[1] ELSE fs[1] \o <<" ">> \o Join(Tail(fs))

\* what the user may type at "Dime:"
Utterances ==
    {Scenario} \cup Sentences \cup
    {Join(fs) : fs \in UNION {[1..n -> Fragments] : n \in 1..MaxFrags}}

\* lines that end the session: EOF or "salir" / "exit" / "quit"
ExitLines ==
    { <<>>,
      <<" ","S","a","l","i","r">>,
      <<"E","X","I","T">>,
      <<"q","u","i","t">> }

\* replies to the prompts of completar_datos and confirmar_evento
TitleReplies == { <<>>, <<"D","e","n","t","i","s","t","a">> }
PlaceReplies == { <<>>, <<"o","n","l","i","n","e">> }
DurationReplies == { <<>>, <<"3","0">>, <<"0">>, <<"-","5">>, <<"a","b","c">> }
ConfirmReplies == { <<>>, <<"s">>, <<"S","i">>, <<"n","o">> }

\* the system clock: 2024-06-10T01:30, 2024-06-10T23:30 and
\* 2024-06-11T00:00 local, in UTC minutes
ClockValues == {450, 1770, 1800}

-----------------------------------------------------------------------------
(* Console helpers                                                         *)

\* solicitar: input(...).strip(), '' on EOF
solicitar(line) == strip(line)

\* pedir_fecha_hora: asks until a reply resolves or the reply is empty; the
\* outcomes of the whole loop
pedir_fecha_hora == {None} \cup {Some(d) : d \in DateTimes}

\* pedir_titulo / pedir_lugar: resp or None
pedir_titulo(line) ==
    IF solicitar(line) = <<>> THEN None ELSE Some(solicitar(line))

pedir_lugar(line) ==
    IF solicitar(line) = <<>> THEN None ELSE Some(solicitar(line))

\* pedir_duracion: a positive int, else None
pedir_duracion(line) ==
    LET resp == solicitar(line)
        v    == ParseInt(resp)
    IN  IF resp = <<>> THEN None
        ELSE IF v # None /\ v[1] > 0 THEN v
        ELSE None

\* the replies of one pass of completar_datos
Answers ==
    [start : pedir_fecha_hora,
     title : {pedir_titulo(l) : l \in TitleReplies},
     location : {pedir_lugar(l) : l \in PlaceReplies},
     duration : {pedir_duracion(l) : l \in DurationReplies}]

\* completar_datos without the default duration
completar_datos_no_default(e, a) ==
    [e EXCEPT
        !.start = IF ~TruthyDt(@) THEN a.start ELSE @,
        !.title = IF ~TruthyStr(@) THEN a.title ELSE @,
        !.location = IF ~TruthyStr(@) THEN a.location ELSE @,
        !.duration_min = IF ~TruthyInt(@) THEN a.duration ELSE @]

\* completar_datos(ev), a holding what the pedir_* calls return
completar_datos(e, a) ==
    [e EXCEPT
        !.start = IF ~TruthyDt(@) THEN a.start ELSE @,
        !.title = IF ~TruthyStr(@) THEN a.title ELSE @,
        !.location = IF ~TruthyStr(@) THEN a.location ELSE @,
        !.duration_min =
            IF ~TruthyInt(@)
            THEN (IF TruthyInt(a.duration) THEN a.duration
                  ELSE Some(DEFAULT_DURATION_MIN))
            ELSE @]

\* which prompts completar_datos(e) shows
Asks(e) ==
    [start |-> ~TruthyDt(e.start), title |-> ~TruthyStr(e.title),
     location |-> ~TruthyStr(e.location),
     duration |-> ~TruthyInt(e.duration_min)]

\* confirmar_evento: r.lower().startswith('s')
confirmar_evento(line) == StartsWith(lower(solicitar(line)), <<"s">>)

\* line 341, "not ev.start or not ev.title", with "and" for "or"
Incomplete_and(e) == ~TruthyDt(e.start) /\ ~TruthyStr(e.title)

\* line 341
Incomplete(e) == ~TruthyDt(e.start) \/ ~TruthyStr(e.title)

\* line 361 without the confirmation
ProceedUnknown_unconfirmed(e, confirma) ==
    TruthyDt(e.start) /\ TruthyStr(e.title)

\* line 361: ev.start and ev.title and confirmar_evento(ev)
ProceedUnknown(e, confirma) ==
    TruthyDt(e.start) /\ TruthyStr(e.title) /\ confirma

\* create_event: the request body (None when ev.start is None and
\* ev.start.astimezone raises)
create_event(e) ==
    IF ~TruthyDt(e.start) THEN None
    ELSE LET start_dt == e.start[1]
             dur == IF TruthyInt(e.duration_min) THEN e.duration_min[1]
                    ELSE DEFAULT_DURATION_MIN
             end_dt == IF TruthyDt(e.end) THEN e.end[1] ELSE start_dt + dur
         IN  Some([summary |-> e.title,
                   location |-> IF TruthyStr(e.location) THEN e.location[1]
                                ELSE <<>>,
                   start |-> start_dt,
                   end |-> end_dt])

-----------------------------------------------------------------------------
(* Ranges of the listing requests                                          *)

\* datetime.now(TZ) read as UTC
NowTZ_utc(c) == c

\* datetime.now(TZ): the clock in wall-clock time of TZ
NowTZ(c) == c + UTC_OFFSET_MIN

\* d.replace(hour=0, minute=0, second=0, microsecond=0)
Midnight(d) == d - (d % MinutesPerDay)

\* lines 316-317
range_today(n) ==
    [timeMin |-> Midnight(n), timeMax |-> Midnight(n) + MinutesPerDay]

\* lines 321-322
range_tomorrow(n) ==
    [timeMin |-> Midnight(n + MinutesPerDay),
     timeMax |-> Midnight(n + MinutesPerDay) + MinutesPerDay]

\* lines 326-327
range_week(n) ==
    [timeMin |-> Midnight(n), timeMax |-> Midnight(n) + 7 * MinutesPerDay]

\* lines 333-334
range_date(dt) ==
    [timeMin |-> Midnight(dt), timeMax |-> Midnight(dt) + MinutesPerDay]

-----------------------------------------------------------------------------
(* main                                                                    *)

NoPrompts ==
    [start |-> None, title |-> None, location |-> None, duration |-> None,
     confirm |-> None]

MsgBye == "Hasta luego"
MsgNoEvents == "No tienes eventos en ese rango"
MsgEvents == "Tus eventos"
MsgMissing == "Faltan datos esenciales"
MsgCancelled == "Cancelado"
MsgCreated == "Evento creado"
MsgCreateError == "Error creando el evento"
MsgMailError == "Error enviando correo"
MsgHelp == "Puedo agendar y tambien listar tu agenda"

\* the state at the top of the loop, before an utterance is read
Idle ==
    /\ texto = <<>>
    /\ intent = "none"
    /\ path = "none"
    /\ ev = PendingEvent
    /\ draft = None
    /\ prompted = NoPrompts
    /\ out = <<>>
    /\ queries = <<>>
    /\ created = None
    /\ now = None
    /\ failure = "none"

Init ==
    /\ pc = "ask"
    /\ clock \in ClockValues
    /\ Idle

\* lines 306-311: read an utterance, leave on an exit line, else classify
Dime ==
    /\ pc = "ask"
    /\ \E line \in Utterances \cup ExitLines :
        LET tx == solicitar(line)
        IN  /\ texto' = tx
            /\ IF tx = <<>> \/ lower(tx) \in ExitWords
               THEN /\ pc' = "done"
                    /\ out' = Append(out, MsgBye)
                    /\ intent' = intent
               ELSE /\ pc' = "dispatch"
                    /\ out' = out
                    /\ \E dt \in parse_datetime_es(strip(lower(tx))) :
                           intent' = detect_intent(tx, dt)
    /\ UNCHANGED <<path, ev, draft, prompted, queries, created, clock, now,
                   failure>>

\* list_events(service, start, end): one query of the calendar source; an
\* exception of the source is not caught here nor in main
list_events(q) ==
    \E res \in {"raise", "empty", "items"} :
        /\ queries' = Append(queries, q)
        /\ IF res = "raise"
           THEN /\ pc' = "crashed"
                /\ failure' = "source"
                /\ out' = out
           ELSE /\ pc' = "end"
                /\ failure' = failure
                /\ out' = Append(out, IF res = "empty" THEN MsgNoEvents
                                      ELSE MsgEvents)

\* line 314: now = datetime.now(TZ)
ReadClock ==
    \E c \in ClockValues :
        /\ c >= clock
        /\ clock' = c
        /\ now' = Some(NowTZ(c))

\* lines 315-319
ListToday ==
    /\ pc = "dispatch"
    /\ intent = "list_today"
    /\ ReadClock
    /\ list_events(range_today(now'[1]))
    /\ UNCHANGED <<texto, intent, path, ev, draft, prompted, created>>

\* lines 320-324
ListTomorrow ==
    /\ pc = "dispatch"
    /\ intent = "list_tomorrow"
    /\ ReadClock
    /\ list_events(range_tomorrow(now'[1]))
    /\ UNCHANGED <<texto, intent, path, ev, draft, prompted, created>>

\* lines 325-329
ListWeek ==
    /\ pc = "dispatch"
    /\ intent = "list_week"
    /\ ReadClock
    /\ list_events(range_week(now'[1]))
    /\ UNCHANGED <<texto, intent, path, ev, draft, prompted, created>>

\* lines 330-336: the date is resolved again, from texto; without a date
\* control leaves the list branch and reaches line 357
ListDate ==
    /\ pc = "dispatch"
    /\ intent = "list_date"
    /\ ReadClock
    /\ \E dt \in parse_datetime_es(texto) :
        IF TruthyDt(dt)
        THEN list_events(range_date(dt[1]))
        ELSE /\ pc' = "fallback"
             /\ UNCHANGED <<queries, failure, out>>
    /\ UNCHANGED <<texto, intent, path, ev, draft, prompted, created>>

\* lines 338-339
Crear ==
    /\ pc = "dispatch"
    /\ intent = "create"
    /\ \E dt \in parse_datetime_es(texto) :
        /\ ev' = parse_event_from_text(texto, dt)
        /\ draft' = Some(ev')
    /\ path' = "create"
    /\ pc' = "completar"
    /\ UNCHANGED <<texto, intent, prompted, out, queries, created, clock,
                   now, failure>>

\* lines 357-359 and 372: an unknown intent, or a list_date whose date did
\* not resolve again
Desconocido ==
    /\ \/ (pc = "dispatch" /\ intent = "unknown")
       \/ pc = "fallback"
    /\ \E dt \in parse_datetime_es(texto) :
        /\ ev' = parse_event_from_text(texto, dt)
        /\ draft' = Some(ev')
        /\ IF TruthyDt(dt)
           THEN /\ path' = "unknown"
                /\ pc' = "completar"
                /\ out' = out
           ELSE /\ path' = path
                /\ pc' = "end"
                /\ out' = Append(out, MsgHelp)
    /\ UNCHANGED <<texto, intent, prompted, queries, created, clock, now,
                   failure>>

\* lines 340 and 360: ev = completar_datos(ev)
Completar ==
    /\ pc = "completar"
    /\ \E a \in Answers :
        /\ ev' = completar_datos(ev, a)
        /\ prompted' =
             [prompted EXCEPT
                !.start = IF Asks(ev).start THEN Some(a.start) ELSE None,
                !.title = IF Asks(ev).title THEN Some(a.title) ELSE None,
                !.location = IF Asks(ev).location THEN Some(a.location)
                             ELSE None,
                !.duration = IF Asks(ev).duration THEN Some(a.duration)
                             ELSE None]
    /\ pc' = "gate"
    /\ UNCHANGED <<texto, intent, path, draft, out, queries, created, clock,
                   now, failure>>

\* lines 341-346
Revisar ==
    /\ pc = "gate"
    /\ path = "create"
    /\ IF Incomplete(ev)
       THEN /\ out' = Append(out, MsgMissing)
            /\ pc' = "end"
            /\ prompted' = prompted
       ELSE \E line \in ConfirmReplies :
            /\ prompted' =
                 [prompted EXCEPT !.confirm = Some(confirmar_evento(line))]
            /\ IF confirmar_evento(line)
               THEN /\ pc' = "create_event"
                    /\ out' = out
               ELSE /\ pc' = "end"
                    /\ out' = Append(out, MsgCancelled)
    /\ UNCHANGED <<texto, intent, path, ev, draft, queries, created, clock,
                   now, failure>>

\* lines 361 and 372: confirmar_evento is asked only when start and title
\* are present
RevisarDesconocido ==
    /\ pc = "gate"
    /\ path = "unknown"
    /\ \E line \in ConfirmReplies :
        LET asked == TruthyDt(ev.start) /\ TruthyStr(ev.title)
            confirma == asked /\ confirmar_evento(line)
        IN  /\ prompted' =
                 [prompted EXCEPT
                    !.confirm = IF asked THEN Some(confirma) ELSE None]
            /\ IF ProceedUnknown(ev, confirma)
               THEN /\ pc' = "create_event"
                    /\ out' = out
               ELSE /\ pc' = "end"
                    /\ out' = Append(out, MsgHelp)
    /\ UNCHANGED <<texto, intent, path, ev, draft, queries, created, clock,
                   now, failure>>

\* lines 347-355 and 362-370: create_event, then flujo_notificacion; every
\* exception is caught by main, send_email_notification catches its own
CrearEvento ==
    /\ pc = "create_event"
    /\ \E res \in {"ok", "raise"} : \E mail \in {"skipped", "sent", "error"} :
        LET body == create_event(ev)
        IN  /\ created' = Some([arg |-> ev, body |-> body])
            /\ IF body = None \/ res = "raise"
               THEN /\ failure' = "sink"
                    /\ out' = Append(out, MsgCreateError)
               ELSE IF mail = "error"
               THEN /\ failure' = "notifier"
                    /\ out' = out \o <<MsgCreated, MsgMailError>>
               ELSE /\ failure' = failure
                    /\ out' = Append(out, MsgCreated)
    /\ pc' = "end"
    /\ UNCHANGED <<texto, intent, path, ev, draft, prompted, queries, clock,
                   now>>

\* continue: back to the top of the loop
Continuar ==
    /\ pc = "end"
    /\ pc' = "ask"
    /\ texto' = <<>>
    /\ intent' = "none"
    /\ path' = "none"
    /\ ev' = PendingEvent
    /\ draft' = None
    /\ prompted' = NoPrompts
    /\ out' = <<>>
    /\ queries' = <<>>
    /\ created' = None
    /\ now' = None
    /\ failure' = "none"
    /\ UNCHANGED clock

Next ==
    \/ Dime
    \/ ListToday
    \/ ListTomorrow
    \/ ListWeek
    \/ ListDate
    \/ Crear
    \/ Desconocido
    \/ Completar
    \/ Revisar
    \/ RevisarDesconocido
    \/ CrearEvento
    \/ Continuar

Spec == Init /\ [][Next]_vars

-----------------------------------------------------------------------------
(* The interpretation functions on their own                               *)

PureInit ==
    /\ pc = "pure"
    /\ texto \in Utterances \cup ExitLines
    /\ clock = Min(ClockValues)
    /\ intent = "none"
    /\ path = "none"
    /\ ev = PendingEvent
    /\ draft = None
    /\ prompted = NoPrompts
    /\ out = <<>>
    /\ queries = <<>>
    /\ created = None
    /\ now = None
    /\ failure = "none"

\* intent = detect_intent(texto)
Clasificar ==
    /\ pc = "pure"
    /\ intent = "none"
    /\ \E dt \in parse_datetime_es(strip(lower(texto))) :
           intent' = detect_intent(texto, dt)
    /\ UNCHANGED <<pc, texto, path, ev, draft, prompted, out, queries,
                   created, clock, now, failure>>

\* ev = parse_event_from_text(texto)
Extraer ==
    /\ pc = "pure"
    /\ draft = None
    /\ \E dt \in parse_datetime_es(texto) :
        /\ ev' = parse_event_from_text(texto, dt)
        /\ draft' = Some(ev')
    /\ UNCHANGED <<pc, texto, intent, path, prompted, out, queries, created,
                   clock, now, failure>>

PureNext == Clasificar \/ Extraer

SpecPure == PureInit /\ [][PureNext]_vars

-----------------------------------------------------------------------------
(* Properties                                                              *)

\* a draft with a title and a start
HasTitleAndStart(e) == e.title # None /\ e.title # Some(<<>>) /\ e.start # None

Last(q) == q[Len(q)]

\* C1: create_event is invoked only with a draft whose title and start are
\* both present, on the create path and on the unknown-intent path.
C1_SinkGetsCompleteDraft ==
    created # None => HasTitleAndStart(created[1].arg)

C1_Witness ==
    /\ pc = "end"
    /\ path = "unknown"
    /\ created # None
    /\ created[1].body # None

\* C2: a text with a list phrase and also a create word or a clock-time /
\* am-pm / D/D pattern is classified as a list intent, never as create.
C2_ListVocabularyWins ==
    LET t == strip(lower(texto))
    IN  (/\ intent # "none"
         /\ \E w \in INTENT_LIST_WORDS : Contains(t, w)
         /\ \/ \E w \in INTENT_SCHEDULE_WORDS : Contains(t, w)
            \/ TimePattern(t))
        => intent \in ListIntents

C2_Witness ==
    /\ intent = "list_date"
    /\ TimePattern(strip(lower(texto)))
    /\ ~ \E w \in INTENT_SCHEDULE_WORDS : Contains(strip(lower(texto)), w)

\* C3: the sentence of the banner, "agenda una cita manana a las 3pm con el
\* dentista en zona 10 por 45 minutos", is classified as create and main
\* takes the event-creation path, not a listing path.
C3_ScenarioIsCreate ==
    (texto = Scenario /\ intent # "none")
        => (intent = "create" /\ queries = <<>>)

\* C4: a failure of the calendar source, the calendar sink or the notifier
\* is caught and reported, and the loop goes on; it never ends the session.
C4_FailuresAreCaught ==
    failure # "none"
        => (/\ pc = "end"
            /\ out # <<>>
            /\ Last(out) \in {MsgCreateError, MsgMailError})

\* C5: the handling of an utterance classified unknown always ends with the
\* help text.
C5_UnknownEndsWithHelp ==
    (pc = "end" /\ intent = "unknown")
        => (out # <<>> /\ Last(out) = MsgHelp)

\* C5 as amended: the handling of an utterance classified unknown ends with
\* the help text, unless parse_event_from_text extracted a start and the
\* user confirmed the draft; then create_event is invoked and no help text
\* is printed.
C5_UnknownHelpUnlessConfirmed ==
    (pc = "end" /\ intent = "unknown")
        => IF draft[1].start # None /\ prompted.confirm = Some(TRUE)
           THEN /\ created # None
                /\ \A i \in 1..Len(out) : out[i] # MsgHelp
           ELSE /\ created = None
                /\ out # <<>>
                /\ Last(out) = MsgHelp

C5_Witness ==
    /\ pc = "end"
    /\ intent = "unknown"
    /\ prompted.confirm = Some(TRUE)
    /\ created # None
    /\ Last(out) = MsgCreated

\* the draft had no duration when completar_datos started, and
\* pedir_duracion returned None
NoDurationGiven ==
    /\ draft # None
    /\ draft[1].duration_min = None
    /\ prompted.duration = Some(None)

EndIsStartPlus60 ==
    (created # None /\ created[1].body # None)
        => created[1].body[1].end = created[1].body[1].start + 60

\* C6: the default duration is applied only in create_event: a draft with no
\* duration, with no duration from the fallback provider, still has none
\* after completar_datos, and the created event ends 60 minutes after its
\* start.
C6_DefaultNeverStored ==
    NoDurationGiven => (ev.duration_min = None /\ EndIsStartPlus60)

\* C6 as amended: for a draft with no duration and no duration from the
\* fallback provider, completar_datos stores 60 in duration_min, and the
\* created event ends 60 minutes after its start.
C6_DefaultStoredByAssembler ==
    NoDurationGiven => (ev.duration_min = Some(60) /\ EndIsStartPlus60)

C6_Witness ==
    /\ NoDurationGiven
    /\ created # None
    /\ created[1].body # None
    /\ created[1].arg.duration_min = Some(60)

\* C7: a draft that lacks title or start after completar_datos is answered
\* with the "Faltan datos esenciales" message and the loop goes back to
\* accepting input, in every create flow of main.
C7_IncompleteDraftIsReported ==
    [][(pc = "gate" /\ ~HasTitleAndStart(ev))
         => (pc' = "end" /\ out' = Append(out, MsgMissing))]_vars

C7_Witness ==
    /\ pc = "end"
    /\ prompted.start = Some(None)
    /\ ~HasTitleAndStart(ev)
    /\ created = None
    /\ Last(out) = MsgMissing

\* C8: with m the local midnight of the day of now, list_events gets
\* [m, m + 1 day) for list_today, [m + 1 day, m + 2 days) for list_tomorrow
\* and [m, m + 7 days) for list_week; at 2024-06-10T23:30 local list_today
\* asks for 2024-06-10T00:00 to 2024-06-11T00:00 local.
C8_ListRanges ==
    (queries # <<>> /\ intent \in {"list_today", "list_tomorrow", "list_week"})
        => LET w == clock - 360
               q == queries[1]
           IN  /\ \E d \in 0..7 :
                    LET m == d * 1440
                    IN  /\ m <= w
                        /\ w < m + 1440
                        /\ intent = "list_today"
                             => q = [timeMin |-> m, timeMax |-> m + 1440]
                        /\ intent = "list_tomorrow"
                             => q = [timeMin |-> m + 1440,
                                     timeMax |-> m + 2880]
                        /\ intent = "list_week"
                             => q = [timeMin |-> m, timeMax |-> m + 10080]
               /\ (clock = 1770 /\ intent = "list_today")
                    => q = [timeMin |-> 0, timeMax |-> 1440]

C8_Witness ==
    /\ intent = "list_today"
    /\ clock = 1770
    /\ Len(queries) = 1
    /\ queries[1] = [timeMin |-> 0, timeMax |-> 1440]

\* C9: for the sentence of the banner parse_event_from_text gives location
\* "zona 10", duration_min 45 and title "el dentista".
C9_ScenarioSlots ==
    (texto = Scenario /\ draft # None)
        => /\ ev.location = Some(<<"z","o","n","a"," ","1","0">>)
           /\ ev.duration_min = Some(45)
           /\ ev.title = Some(<<"e","l"," ","d","e","n","t","i","s","t","a">>)

\* C9 as amended: for the sentence of the banner parse_event_from_text gives
\* location "zona 10 por 45 minutos", duration_min 45 and title "el dentista
\* en zona 10 por 45 minutos".
C9_ScenarioSlotsRunToEnd ==
    (texto = Scenario /\ draft # None)
        => /\ ev.location = Some(<<"z","o","n","a"," ","1","0"," ","p","o","r"," ","4","5"," ","m","i","n","u","t","o","s">>)
           /\ ev.duration_min = Some(45)
           /\ ev.title = Some(<<"e","l"," ","d","e","n","t","i","s","t","a"," ","e","n"," ","z","o","n","a"," ","1","0"," ","p","o","r"," ","4","5"," ","m","i","n","u","t","o","s">>)

C9_Witness ==
    /\ texto = Scenario
    /\ draft # None
    /\ ev.duration_min = Some(45)
    /\ ev.location # None

====
